---- MODULE Spec2Model ----
(***************************************************************************)
(* VSmesh: the two editor-shell prototypes.                                *)
(*                                                                         *)
(*   src/Mainport.py  the Tk prototype: a window with a notebook of tabs,  *)
(*                    one InfiniteGrid canvas per tab, a menu with         *)
(*                    New Script / Save As / Load / Generate Code.         *)
(*   src/Main.py      the Qt prototype: a window with one InfiniteGrid     *)
(*                    view.                                                *)
(*                                                                         *)
(* Numbers.  scale_factor is a Python float.  Every value it takes is a    *)
(* product of the factors 1.25 and 0.8, so it is modelled as the exact     *)
(* rational <<numerator, denominator>> in lowest terms.  The floats the    *)
(* program reaches (39 of them, 1.0 and the roundings of 0.8^k, k = 1..6)  *)
(* are each within 1e-15 of their rational, far from both limits 0.25 and  *)
(* 0.85 and from any integer multiple of 1/50, so every comparison and     *)
(* every int() of the program gives the result of the exact arithmetic.    *)
(*                                                                         *)
(* Text.  A string is a sequence of pieces; the characters ".", "v", "s"   *)
(* are pieces of their own, so that str.replace(".vs", "") is computed     *)
(* character by character where it matters.                                *)
(***************************************************************************)
EXTENDS Integers, Sequences, FiniteSets, TLC

VARIABLES notebook,    \* Tk: text of each notebook tab, in tab order
          grids,       \* Tk: the InfiniteGrid of each notebook tab's frame
          tabs,        \* Tk: self.tabs, a dict in insertion order
          vsm1,        \* the .vsm1 file written by save_to_vsm1: <<>> or <<archive>>
          stdout,      \* lines printed by the latest handler that printed
          messagebox,  \* the latest dialog shown: <<>> or <<kind, title, text>>
          b1_down,     \* Tk: per grid, whether mouse button 1 is down on it
          qt,          \* Qt: the InfiniteGrid view
          qt_buttons   \* Qt: the mouse buttons held down over the view

vars == <<notebook, grids, tabs, vsm1, stdout, messagebox, b1_down, qt, qt_buttons>>

qt_vars == <<qt, qt_buttons>>

(***************************************************************************)
(* Bounds of the model.                                                    *)
(***************************************************************************)
\* Most notebook tabs a window is let to grow to.
MaxTabs == 2

\* The grids of the first MaxActiveGrids tabs are the ones given events.
MaxActiveGrids == 1

\* Mouse coordinates are 0 or CoordStep; one step exceeds a pan limit.
CoordStep == 6000

Coords == {0, CoordStep}

\* Mouse coordinates used on the grids of the tabbed window.
WinCoords == {0}

\* event.delta / angleDelta().y(): wheel towards, none, away.
Deltas == {-120, 0, 120}

(***************************************************************************)
(* Exact rationals <<n, d>>, d > 0, in lowest terms.                       *)
(***************************************************************************)
RECURSIVE Gcd(_, _)
Gcd(a, b) == IF b = 0 THEN a ELSE Gcd(b, a % b)

Rat(n, d) == LET g == Gcd(n, d) IN <<n \div g, d \div g>>

RatMul(a, b) == Rat(a[1] * b[1], a[2] * b[2])

RatLeq(a, b) == a[1] * b[2] <= b[1] * a[2]

\* int(x) of a Python number: truncation towards zero of n / d, d > 0.
IntOf(n, d) == IF n >= 0 THEN n \div d ELSE -((-n) \div d)

Max(a, b) == IF a >= b THEN a ELSE b

Min(a, b) == IF a <= b THEN a ELSE b

\* len(range(a, a + span, step)) for step > 0.
RangeLen(span, step) == (span + step - 1) \div step

(***************************************************************************)
(* Text.                                                                   *)
(***************************************************************************)
Digit(n) == <<"0", "1", "2", "3", "4", "5", "6", "7", "8", "9">>[n + 1]

\* str(n) for n >= 0.
RECURSIVE Str(_)
Str(n) == IF n < 10 THEN <<Digit(n)>> ELSE Str(n \div 10) \o <<Digit(n % 10)>>

\* s.replace(old, new): every non-overlapping occurrence, left to right.
RECURSIVE Replace(_, _, _)
Replace(s, old, new) ==
    IF Len(s) < Len(old) THEN s
    ELSE IF SubSeq(s, 1, Len(old)) = old
         THEN new \o Replace(SubSeq(s, Len(old) + 1, Len(s)), old, new)
         ELSE <<Head(s)>> \o Replace(Tail(s), old, new)

DotVs == <<".", "v", "s">>

\* f"Script {n}"
ScriptName(n) == <<"Script ">> \o Str(n)

(***************************************************************************)
(* Tk prototype, InfiniteGrid (src/Mainport.py).                           *)
(*                                                                         *)
(* A grid is a record: the attributes of the object, the canvas cursor,    *)
(* and what its latest draw_grid did: spacing is the step of the two       *)
(* ranges, lines the number of vertical and horizontal lines created,      *)
(* error the exception the latest handler ended with ("" for none).        *)
(***************************************************************************)
max_scale_factor == <<17, 20>>   \* 0.85

min_scale_factor == <<1, 4>>     \* 0.25

grid_size == 50

pan_limit_x == 5000

pan_limit_y == 5000

zoom_in_factor == <<5, 4>>       \* 1.25

zoom_out_factor == <<4, 5>>      \* 0.8

\* None, and the truth value Python gives an attribute that is None or a tuple.
None == <<>>

Truthy(v) == Len(v) > 0

\* The spacing draw_grid computes with the cast applied before the product.
grid_spacing_cast_first(self) ==
    grid_size * IntOf(self.scale_factor[1], self.scale_factor[2])

\* grid_size = int(self.grid_size * self.scale_factor)
grid_spacing(self) ==
    IntOf(grid_size * self.scale_factor[1], self.scale_factor[2])

\* draw_grid: delete the old lines, then one line per element of each range;
\* range() raises ValueError on a step of 0, after the old lines are gone.
draw_grid(self) ==
    LET step == grid_spacing(self) IN
    IF step = 0
    THEN [self EXCEPT !.spacing = 0, !.lines = <<0, 0>>, !.error = "ValueError"]
    ELSE [self EXCEPT !.spacing = step,
                      !.lines = <<RangeLen(2 * pan_limit_x, step),
                                  RangeLen(2 * pan_limit_y, step)>>,
                      !.error = ""]

\* InfiniteGrid.__init__
NewGrid ==
    draw_grid([scale_factor    |-> <<1, 1>>,
               pan_offset_x    |-> 0,
               pan_offset_y    |-> 0,
               last_mouse_pos  |-> None,
               cursor          |-> "",
               spacing         |-> 0,
               lines           |-> <<0, 0>>,
               error           |-> ""])

wheel_event(self, delta) ==
    LET zoom_factor == IF delta > 0 THEN zoom_in_factor ELSE zoom_out_factor
        new_scale_factor == RatMul(self.scale_factor, zoom_factor)
    IN  IF RatLeq(min_scale_factor, new_scale_factor)
           /\ RatLeq(new_scale_factor, max_scale_factor)
        THEN draw_grid([self EXCEPT !.scale_factor = new_scale_factor])
        ELSE [self EXCEPT !.error = ""]

mouse_press(self, x, y) ==
    [self EXCEPT !.last_mouse_pos = <<x, y>>, !.cursor = "fleur", !.error = ""]

\* mouse_move with the new offsets stored as computed, the limits not applied.
mouse_move_unclamped(self, x, y) ==
    IF Truthy(self.last_mouse_pos)
    THEN LET dx == x - self.last_mouse_pos[1]
             dy == y - self.last_mouse_pos[2]
         IN  [draw_grid([self EXCEPT !.pan_offset_x = self.pan_offset_x + dx,
                                     !.pan_offset_y = self.pan_offset_y + dy])
                EXCEPT !.last_mouse_pos = <<x, y>>]
    ELSE [self EXCEPT !.error = ""]

mouse_move(self, x, y) ==
    IF Truthy(self.last_mouse_pos)
    THEN LET dx == x - self.last_mouse_pos[1]
             dy == y - self.last_mouse_pos[2]
             moved == [self EXCEPT
                 !.pan_offset_x =
                     Max(Min(self.pan_offset_x + dx, pan_limit_x), -pan_limit_x),
                 !.pan_offset_y =
                     Max(Min(self.pan_offset_y + dy, pan_limit_y), -pan_limit_y)]
             drawn == draw_grid(moved)
         IN  \* a failed draw_grid leaves before last_mouse_pos is updated
             IF drawn.error = "" THEN [drawn EXCEPT !.last_mouse_pos = <<x, y>>]
             ELSE drawn
    ELSE [self EXCEPT !.error = ""]

\* mouse_release that puts the cursor back and keeps last_mouse_pos.
mouse_release_keep(self) ==
    [self EXCEPT !.cursor = "arrow", !.error = ""]

mouse_release(self) ==
    [self EXCEPT !.cursor = "arrow", !.last_mouse_pos = None, !.error = ""]

(***************************************************************************)
(* Qt prototype, InfiniteGrid (src/Main.py).                               *)
(*                                                                         *)
(* The view is a record: scale_factor; m11, the scale of the view's        *)
(* transform, which self.scale() multiplies; last_mouse_pos, an attribute  *)
(* __init__ does not create (has_last_mouse_pos tells whether it exists);  *)
(* hbar and vbar, the values of the two scroll bars; the cursor; and,      *)
(* as for the Tk grid, what the latest draw_grid did and the exception the *)
(* latest handler ended with.                                              *)
(***************************************************************************)
qt_max_scale_factor == <<17, 20>>   \* 0.85

qt_min_scale_factor == <<1, 4>>     \* 0.25

qt_pan_limit_x == 5000

qt_pan_limit_y == 5000

qt_grid_size == 50

qt_zoom_in_factor == <<5, 4>>       \* 1.25

qt_zoom_out_factor == <<4, 5>>      \* 0.8

Buttons == {"LeftButton", "RightButton"}

\* range(int(left), int(right), int(grid_size)) over the scene rectangle.
qt_draw_grid(self) ==
    LET step == IntOf(qt_grid_size * self.scale_factor[1], self.scale_factor[2]) IN
    IF step = 0
    THEN [self EXCEPT !.spacing = 0, !.lines = <<0, 0>>, !.error = "ValueError"]
    ELSE [self EXCEPT !.spacing = step,
                      !.lines = <<RangeLen(2 * qt_pan_limit_x, step),
                                  RangeLen(2 * qt_pan_limit_y, step)>>,
                      !.error = ""]

\* InfiniteGrid.__init__
QtNewGrid ==
    qt_draw_grid([scale_factor       |-> <<1, 1>>,
                  m11                |-> <<1, 1>>,
                  has_last_mouse_pos |-> FALSE,
                  last_mouse_pos     |-> <<0, 0>>,
                  hbar               |-> 0,
                  vbar               |-> 0,
                  cursor             |-> "ArrowCursor",
                  spacing            |-> 0,
                  lines              |-> <<0, 0>>,
                  error              |-> ""])

\* wheelEvent taking a wheel that did not turn vertically for a zoom in.
wheelEvent_zero_in(self, delta) ==
    LET zoom_factor == IF delta >= 0 THEN qt_zoom_in_factor ELSE qt_zoom_out_factor
        new_scale_factor == RatMul(self.scale_factor, zoom_factor)
    IN  IF RatLeq(qt_min_scale_factor, new_scale_factor)
           /\ RatLeq(new_scale_factor, qt_max_scale_factor)
        THEN qt_draw_grid([self EXCEPT !.scale_factor = new_scale_factor,
                                       !.m11 = RatMul(self.m11, zoom_factor)])
        ELSE [self EXCEPT !.error = ""]

wheelEvent(self, delta) ==
    LET zoom_factor == IF delta > 0 THEN qt_zoom_in_factor ELSE qt_zoom_out_factor
        new_scale_factor == RatMul(self.scale_factor, zoom_factor)
    IN  IF RatLeq(qt_min_scale_factor, new_scale_factor)
           /\ RatLeq(new_scale_factor, qt_max_scale_factor)
        THEN qt_draw_grid([self EXCEPT !.scale_factor = new_scale_factor,
                                       !.m11 = RatMul(self.m11, zoom_factor)])
        ELSE [self EXCEPT !.error = ""]

mousePressEvent(self, button, x, y) ==
    IF button = "LeftButton"
    THEN [self EXCEPT !.has_last_mouse_pos = TRUE,
                      !.last_mouse_pos = <<x, y>>,
                      !.cursor = "ClosedHandCursor",
                      !.error = ""]
    ELSE [self EXCEPT !.error = ""]

\* The truth values `self.last_mouse_pos` can have in the condition of
\* mouseMoveEvent.  A QPoint is an object, true by default; a binding built to
\* use isNull() for truth makes QPoint(0, 0) false.  Both are admitted.
QPointTruth(p) == {TRUE, p # <<0, 0>>}

\* max(min(value - delta, limit), -limit), handed to setValue as an int;
\* delta is the mouse displacement mapped to the scene, d / m11.
QtBarValue(value, d, m11, limit) ==
    LET n == value * m11[1] - d * m11[2]     \* (value - d / m11) * m11[1]
    IN  IF n >= limit * m11[1] THEN limit
        ELSE IF n <= (-limit) * m11[1] THEN -limit
        ELSE IntOf(n, m11[1])

\* The set of states mouseMoveEvent can leave the view in.
mouseMoveEvent(self, buttons, x, y) ==
    IF "LeftButton" \in buttons
    THEN IF ~self.has_last_mouse_pos
         THEN {[self EXCEPT !.error = "AttributeError"]}
         ELSE {IF truth
               THEN [self EXCEPT
                       !.hbar = QtBarValue(self.hbar, x - self.last_mouse_pos[1],
                                           self.m11, qt_pan_limit_x),
                       !.vbar = QtBarValue(self.vbar, y - self.last_mouse_pos[2],
                                           self.m11, qt_pan_limit_y),
                       !.last_mouse_pos = <<x, y>>,
                       !.error = ""]
               ELSE [self EXCEPT !.error = ""]
               : truth \in QPointTruth(self.last_mouse_pos)}
    ELSE {[self EXCEPT !.error = ""]}

mouseReleaseEvent(self, button) ==
    IF button = "LeftButton"
    THEN [self EXCEPT !.cursor = "ArrowCursor", !.error = ""]
    ELSE [self EXCEPT !.error = ""]

(***************************************************************************)
(* Tk prototype, MainWindow (src/Mainport.py).                             *)
(*                                                                         *)
(* A window is the record [notebook, grids, tabs].  self.tabs is a dict:   *)
(* a sequence of items [name, grid] in insertion order, grid being the     *)
(* position in the notebook of the frame whose canvas the item refers to.  *)
(* An archive is [zip, entries]: zip tells whether the file opens as a ZIP *)
(* archive; an entry is [name, data, utf8], utf8 telling whether its bytes *)
(* can be read and decoded.                                                *)
(***************************************************************************)
Languages == {"GDScript", "Python"}

\* d[key] = value on a dict: an existing key keeps its place.
DictSet(d, key, value) ==
    IF \E i \in 1..Len(d) : d[i].name = key
    THEN [i \in 1..Len(d) |->
            IF d[i].name = key THEN [name |-> key, grid |-> value] ELSE d[i]]
    ELSE Append(d, [name |-> key, grid |-> value])

Keys(d) == {d[i].name : i \in 1..Len(d)}

add_tab(w, name) ==
    [notebook |-> Append(w.notebook, name),
     grids    |-> Append(w.grids, NewGrid),
     tabs     |-> DictSet(w.tabs, name, Len(w.notebook) + 1)]

\* MainWindow.__init__
NewWindow == add_tab([notebook |-> <<>>, grids |-> <<>>, tabs |-> <<>>], ScriptName(1))

Window == [notebook |-> notebook, grids |-> grids, tabs |-> tabs]

\* What save_to_vsm1 writes for the dict d.
SavedArchive(d) ==
    [zip     |-> TRUE,
     entries |-> [i \in 1..Len(d) |->
                    [name |-> d[i].name \o DotVs,
                     data |-> <<"Generated code for ">> \o d[i].name \o <<".">>,
                     utf8 |-> TRUE]]]

\* Archives not written by this program that the user may pick in the dialog.
ExternalArchives ==
    { [zip |-> TRUE,
       entries |-> << [name |-> ScriptName(1) \o DotVs,
                       data |-> <<"x">>, utf8 |-> TRUE] >>],
      [zip |-> TRUE,
       entries |-> << [name |-> <<"a">> \o DotVs, data |-> <<"x">>, utf8 |-> TRUE],
                      [name |-> <<"b">> \o DotVs, data |-> <<>>, utf8 |-> FALSE] >>],
      [zip |-> FALSE, entries |-> <<>>] }

\* The loop of load_from_vsm1 over the entries es, from the state st =
\* [win, out, error]: it stops at the first entry that raises.
RECURSIVE LoadEntries(_, _)
LoadEntries(st, es) ==
    IF es = <<>> THEN st
    ELSE LET e == Head(es) IN
         IF ~e.utf8 THEN [st EXCEPT !.error = "UnicodeDecodeError"]
         ELSE LoadEntries(
                 [win   |-> add_tab(st.win, Replace(e.name, DotVs, <<>>)),
                  out   |-> Append(st.out, <<"Loaded ">> \o e.name \o <<": ">> \o e.data),
                  error |-> ""],
                 Tail(es))

\* The body of load_from_vsm1 on the archive a: [win, out, error].
LoadResult(w, a) ==
    IF ~a.zip THEN [win |-> w, out |-> <<>>, error |-> "BadZipFile"]
    ELSE LoadEntries([win |-> w, out |-> <<>>, error |-> ""], a.entries)

\* generate_code printing a text that leaves the language out.
generate_code_fixed_text(language) ==
    /\ stdout' = << <<"Generated code.">> >>
    /\ UNCHANGED <<notebook, grids, tabs, vsm1, messagebox, b1_down, qt_vars>>

generate_code(language) ==
    /\ stdout' = << <<"Generated ", language, " code.">> >>
    /\ UNCHANGED <<notebook, grids, tabs, vsm1, messagebox, b1_down, qt_vars>>

new_script ==
    /\ Len(notebook) < MaxTabs
    /\ LET w == add_tab(Window, ScriptName(Len(tabs) + 1)) IN
         /\ notebook' = w.notebook
         /\ grids' = w.grids
         /\ tabs' = w.tabs
    /\ b1_down' = Append(b1_down, FALSE)
    /\ UNCHANGED <<vsm1, stdout, messagebox, qt_vars>>

\* save_to_vsm1; opening the file for writing may raise OSError, and then
\* nothing is written.
save_to_vsm1(outcome) ==
    /\ IF outcome = "ok"
       THEN /\ vsm1' = <<SavedArchive(tabs)>>
            /\ messagebox' = <<"info", "Save", <<"File saved successfully.">>>>
       ELSE /\ vsm1' = vsm1
            /\ messagebox' = <<"error", "Error", <<"Error saving file: ", outcome>>>>
    /\ UNCHANGED <<notebook, grids, tabs, stdout, b1_down, qt_vars>>

load_from_vsm1(a) ==
    LET r == LoadResult(Window, a) IN
    /\ Len(r.win.notebook) <= MaxTabs
    /\ notebook' = r.win.notebook
    /\ grids' = r.win.grids
    /\ tabs' = r.win.tabs
    /\ b1_down' = b1_down \o [i \in 1..(Len(r.win.notebook) - Len(notebook)) |-> FALSE]
    /\ stdout' = IF r.out = <<>> THEN stdout ELSE r.out
    /\ messagebox' = IF r.error = ""
                     THEN <<"info", "Load", <<"File loaded successfully.">>>>
                     ELSE <<"error", "Error", <<"Error loading file: ", r.error>>>>
    /\ UNCHANGED <<vsm1, qt_vars>>

\* The files the Load dialog can return: an external one, or the one saved.
Loadable == ExternalArchives \cup {vsm1[i] : i \in 1..Len(vsm1)}

(***************************************************************************)
(* Events on the grid of notebook tab i (Tk).                              *)
(***************************************************************************)
TkWheel(i, delta) ==
    /\ grids' = [grids EXCEPT ![i] = wheel_event(@, delta)]
    /\ UNCHANGED <<notebook, tabs, vsm1, stdout, messagebox, b1_down, qt_vars>>

TkPress(i, x, y) ==
    /\ grids' = [grids EXCEPT ![i] = mouse_press(@, x, y)]
    /\ b1_down' = [b1_down EXCEPT ![i] = TRUE]
    /\ UNCHANGED <<notebook, tabs, vsm1, stdout, messagebox, qt_vars>>

TkMove(i, x, y) ==
    /\ grids' = [grids EXCEPT ![i] = mouse_move(@, x, y)]
    /\ UNCHANGED <<notebook, tabs, vsm1, stdout, messagebox, b1_down, qt_vars>>

TkRelease(i) ==
    /\ grids' = [grids EXCEPT ![i] = mouse_release(@)]
    /\ b1_down' = [b1_down EXCEPT ![i] = FALSE]
    /\ UNCHANGED <<notebook, tabs, vsm1, stdout, messagebox, qt_vars>>

(***************************************************************************)
(* The two prototypes side by side, given the same user input: the grid of *)
(* the first Tk tab and the Qt view.  qt_buttons is the set of buttons     *)
(* held; a press is of a button that was up, a release of a button that    *)
(* was down, and a Qt move event carries the buttons held.  The Tk canvas  *)
(* binds button 1 only; its mouse_move is run on every motion, which       *)
(* includes every <B1-Motion>.                                             *)
(***************************************************************************)
WheelBoth(delta) ==
    /\ grids' = [grids EXCEPT ![1] = wheel_event(@, delta)]
    /\ qt' = wheelEvent(qt, delta)
    /\ UNCHANGED <<notebook, tabs, vsm1, stdout, messagebox, b1_down, qt_buttons>>

PressBoth(button, x, y) ==
    /\ button \notin qt_buttons
    /\ qt_buttons' = qt_buttons \cup {button}
    /\ qt' = mousePressEvent(qt, button, x, y)
    /\ grids' = IF button = "LeftButton"
                THEN [grids EXCEPT ![1] = mouse_press(@, x, y)] ELSE grids
    /\ b1_down' = IF button = "LeftButton"
                  THEN [b1_down EXCEPT ![1] = TRUE] ELSE b1_down
    /\ UNCHANGED <<notebook, tabs, vsm1, stdout, messagebox>>

MoveBoth(x, y) ==
    /\ qt' \in mouseMoveEvent(qt, qt_buttons, x, y)
    /\ grids' = [grids EXCEPT ![1] = mouse_move(@, x, y)]
    /\ UNCHANGED <<notebook, tabs, vsm1, stdout, messagebox, b1_down, qt_buttons>>

ReleaseBoth(button) ==
    /\ button \in qt_buttons
    /\ qt_buttons' = qt_buttons \ {button}
    /\ qt' = mouseReleaseEvent(qt, button)
    /\ grids' = IF button = "LeftButton"
                THEN [grids EXCEPT ![1] = mouse_release(@)] ELSE grids
    /\ b1_down' = IF button = "LeftButton"
                  THEN [b1_down EXCEPT ![1] = FALSE] ELSE b1_down
    /\ UNCHANGED <<notebook, tabs, vsm1, stdout, messagebox>>

(***************************************************************************)
(* Specifications.                                                         *)
(***************************************************************************)
Init ==
    /\ notebook = NewWindow.notebook
    /\ grids = NewWindow.grids
    /\ tabs = NewWindow.tabs
    /\ vsm1 = <<>>
    /\ stdout = <<>>
    /\ messagebox = <<>>
    /\ b1_down = <<FALSE>>
    /\ qt = QtNewGrid
    /\ qt_buttons = {}

\* The notebook tabs whose grids are given events.
Active == 1..Min(Len(grids), MaxActiveGrids)

\* The tabbed Tk window: the menu commands, and the canvas handlers of the
\* active grids, run in any order.
Next ==
    \/ new_script
    \/ \E outcome \in {"ok", "OSError"} : save_to_vsm1(outcome)
    \/ \E a \in Loadable : load_from_vsm1(a)
    \/ \E language \in Languages : generate_code(language)
    \/ \E i \in Active, delta \in Deltas : TkWheel(i, delta)
    \/ \E i \in Active, x \in WinCoords, y \in WinCoords : TkPress(i, x, y)
    \/ \E i \in Active, x \in WinCoords, y \in WinCoords : TkMove(i, x, y)
    \/ \E i \in Active : TkRelease(i)

Spec == Init /\ [][Next]_vars

\* The two grids side by side.
GridNext ==
    \/ \E delta \in Deltas : WheelBoth(delta)
    \/ \E button \in Buttons, x \in Coords, y \in Coords : PressBoth(button, x, y)
    \/ \E x \in Coords, y \in Coords : MoveBoth(x, y)
    \/ \E button \in Buttons : ReleaseBoth(button)

GridSpec == Init /\ [][GridNext]_vars

(***************************************************************************)
(* Properties.                                                             *)
(***************************************************************************)
Grids == {grids[i] : i \in 1..Len(grids)}

\* C1: a load that ends in an error leaves the tabs as they were: the notebook
\* tabs and self.tabs after the call are those before it.
FailedLoadRejectedWhole ==
    [][\A a \in Loadable :
          (load_from_vsm1(a) /\ LoadResult(Window, a).error # "")
          => (notebook' = notebook /\ tabs' = tabs)]_vars

\* C2: no two notebook tabs carry the same name, and the notebook has as many
\* tabs as self.tabs has keys.
TabNamesUnique ==
    /\ \A i, j \in 1..Len(notebook) : i # j => notebook[i] # notebook[j]
    /\ Len(notebook) = Len(tabs)

\* C3: loading the file that save_to_vsm1 wrote from the current tabs gives back
\* exactly those tabs: same notebook tabs, same keys of self.tabs, same count.
SaveLoadRoundTrip ==
    [][(vsm1 = <<SavedArchive(tabs)>> /\ load_from_vsm1(SavedArchive(tabs)))
       => (notebook' = notebook /\ Keys(tabs') = Keys(tabs) /\ Len(tabs') = Len(tabs))]_vars

\* C4: the archive save_to_vsm1 writes has one entry per notebook tab, with
\* pairwise distinct names "<tab name>.vs" and contents
\* "Generated code for <tab name>.".
SaveOneEntryPerTab ==
    [][save_to_vsm1("ok") =>
         LET es == vsm1'[1].entries IN
         /\ Len(es) = Len(notebook)
         /\ \A i, j \in 1..Len(es) : i # j => es[i].name # es[j].name
         /\ \A i \in 1..Len(es) : \E k \in 1..Len(notebook) :
               /\ es[i].name = notebook[k] \o DotVs
               /\ es[i].data = <<"Generated code for ">> \o notebook[k] \o <<".">>
         /\ \A k \in 1..Len(notebook) : \E i \in 1..Len(es) :
               es[i].name = notebook[k] \o DotVs]_vars

\* C5: in every state, every grid's scale_factor lies between min_scale_factor
\* and max_scale_factor (0.25 and 0.85), in the Tk and in the Qt prototype.
ZoomClamped ==
    /\ \A g \in Grids : /\ RatLeq(min_scale_factor, g.scale_factor)
                        /\ RatLeq(g.scale_factor, max_scale_factor)
    /\ RatLeq(qt_min_scale_factor, qt.scale_factor)
    /\ RatLeq(qt.scale_factor, qt_max_scale_factor)

PanInLimits ==
    /\ \A g \in Grids : /\ -pan_limit_x <= g.pan_offset_x
                        /\ g.pan_offset_x <= pan_limit_x
                        /\ -pan_limit_y <= g.pan_offset_y
                        /\ g.pan_offset_y <= pan_limit_y
    /\ -qt_pan_limit_x <= qt.hbar /\ qt.hbar <= qt_pan_limit_x
    /\ -qt_pan_limit_y <= qt.vbar /\ qt.vbar <= qt_pan_limit_y

\* A move of a drag that would take an offset past a limit leaves it at that limit.
MoveStopsAtLimit ==
    \A x \in Coords, y \in Coords :
       (MoveBoth(x, y) /\ Truthy(grids[1].last_mouse_pos)) =>
          LET g  == grids[1]
              tx == g.pan_offset_x + (x - g.last_mouse_pos[1])
              ty == g.pan_offset_y + (y - g.last_mouse_pos[2])
          IN  /\ tx > pan_limit_x  => grids'[1].pan_offset_x = pan_limit_x
              /\ tx < -pan_limit_x => grids'[1].pan_offset_x = -pan_limit_x
              /\ ty > pan_limit_y  => grids'[1].pan_offset_y = pan_limit_y
              /\ ty < -pan_limit_y => grids'[1].pan_offset_y = -pan_limit_y

\* C6: after any sequence of mouse events the pan offsets (Tk) and the scroll
\* bar values (Qt) lie within the pan limits, and a move that would cross a
\* limit leaves the offset exactly at that limit.
PanClamped == []PanInLimits /\ [][MoveStopsAtLimit]_vars

\* C6 witness: a drag has run both Tk offsets, and the Qt bars, into limits.
PanClampedWitness ==
    /\ grids[1].pan_offset_x = pan_limit_x
    /\ grids[1].pan_offset_y = -pan_limit_y
    /\ Truthy(grids[1].last_mouse_pos)
    /\ qt.hbar = -qt_pan_limit_x
    /\ qt.vbar = qt_pan_limit_y

\* C7: generate_code changes neither self.tabs nor the notebook nor any grid,
\* and prints "Generated <language> code.", a text fixed by the language.
GenerateCodeIsStub ==
    [][\A language \in Languages :
          generate_code(language) =>
             /\ UNCHANGED <<notebook, tabs, grids>>
             /\ stdout' = << <<"Generated ", language, " code.">> >>]_vars

\* C7 witness: generate_code has run in a window with a second tab, a saved
\* file and a zoomed grid.
GenerateCodeWitness ==
    /\ stdout = << <<"Generated ", "Python", " code.">> >>
    /\ Len(notebook) > 1
    /\ vsm1 # <<>>
    /\ grids[1].scale_factor # <<1, 1>>

\* C8: given the same wheel events, the Qt view and the Tk grid hold the same
\* scale_factor after every event, and each event changes both or neither.
SameZoomMachine ==
    /\ [](qt.scale_factor = grids[1].scale_factor)
    /\ [][(qt'.scale_factor # qt.scale_factor)
            <=> (grids'[1].scale_factor # grids[1].scale_factor)]_vars

\* C8 witness: both have taken three zoom-out steps from the initial 1.0.
SameZoomWitness ==
    /\ qt.scale_factor = <<64, 125>>
    /\ grids[1].scale_factor = <<64, 125>>

\* C9: a mouse move changes the pan position only during a drag (button 1
\* pressed on the grid and not yet released), and last_mouse_pos is read only
\* as set by a press.
PanOnlyInDrag ==
    /\ [](\A i \in 1..Len(grids) : Truthy(grids[i].last_mouse_pos) => b1_down[i])
    /\ [](qt.error # "AttributeError")
    /\ [][/\ (\/ grids'[1].pan_offset_x # grids[1].pan_offset_x
              \/ grids'[1].pan_offset_y # grids[1].pan_offset_y) => b1_down[1]
          /\ (qt'.hbar # qt.hbar \/ qt'.vbar # qt.vbar)
               => ("LeftButton" \in qt_buttons /\ qt.has_last_mouse_pos)]_vars

\* C9 witness: a drag has panned both views and has ended.
PanOnlyInDragWitness ==
    /\ grids[1].pan_offset_x # 0
    /\ grids[1].last_mouse_pos = None
    /\ ~b1_down[1]
    /\ qt.hbar # 0
    /\ "LeftButton" \notin qt_buttons

\* C10: the step of the grid-line ranges, int(50 * scale_factor), is at least 1
\* in every state: every draw_grid drew its lines, none failed.
GridSpacingPositive ==
    /\ \A g \in Grids : /\ g.spacing = grid_spacing(g)
                        /\ g.spacing >= 1
                        /\ g.error # "ValueError"
                        /\ g.lines[1] >= 1 /\ g.lines[2] >= 1
    /\ qt.spacing >= 1
    /\ qt.error # "ValueError"
    /\ qt.lines[1] >= 1 /\ qt.lines[2] >= 1

\* C10 witness: both grids drawn at the smallest zoom the wheel reaches.
GridSpacingWitness ==
    /\ grids[1].scale_factor = <<4096, 15625>>
    /\ grids[1].spacing = 13
    /\ qt.spacing = 13

====
